---- MODULE Spec2Model ----
(***************************************************************************)
(* matrix-gatekeeper (src/main.py): the event handlers of main() and the   *)
(* ledger they keep, as a state machine.  nio awaits each event callback   *)
(* before it calls the next one, so one delivered event is one step.       *)
(***************************************************************************)
EXTENDS Integers, Sequences, FiniteSets, TLC

\* ------------------------------------------------------------- bounds
\* membership events counted per process lifetime
MaxJoins == 3
\* largest configured REPOST_EVERY_N_JOINS
MaxThreshold == 2
\* rules messages the homeserver accepts over the whole run
MaxPosts == 2
\* process restarts
MaxRestarts == 1
\* code points of a reaction key before selectors are added to it
MaxKeyLen == 2
\* variation selectors added to a key
MaxSelectors == 2

\* ------------------------------------------------------------- values
BotId == "@bot"
Users == {BotId, "@u1", "@u2"}
NoUser == "-"

TARGET_ROOM_ID == "!gated"
OtherRoomId == "!other"
RoomIds == {TARGET_ROOM_ID, OtherRoomId}

\* event identifiers: 0 is the configured one, 1..MaxPosts are those the
\* homeserver gives to the bot's reposts, ForeignEventId is somebody else's
\* message and NoEventId stands for None (no relation in the event)
TARGET_EVENT_ID == 0
ForeignEventId == MaxPosts + 1
NoEventId == 0 - 1

\* code points of the reaction keys
VS15 == 65038
VS16 == 65039
WHITE_HEAVY_CHECK_MARK == 9989
HEAVY_CHECK_MARK == 10004
BALLOT_BOX_WITH_CHECK == 9745

\* reaction keys as sequences of code points; <<128077>> is the thumbs-up.
\* NoKey stands for an event without a key.
NoKey == << 0 - 1 >>
Keys == { << >>, <<WHITE_HEAVY_CHECK_MARK>>, <<HEAVY_CHECK_MARK, VS16>>, <<128077>> }

\* outcomes of a transport call: a response object, an error response, an
\* exception
Res == {"ok", "err", "raise"}
\* room_invite: the error response and the exception each with or without
\* the words "already in the room"
InviteRes == {"ok", "err_already", "err_other", "raise_already", "raise_other"}

VARIABLES
    \* configuration (module level of main.py), fixed for the whole run
    RULES_TEXT, WELCOME_TEXT, TIPS_TEXT, REPOST_EVERY_N_JOINS,
    \* the closure state of main()
    invited_users, welcomed_users, rules_event_ids, join_count, initial_sync_done,
    \* where main() is: "init_sync", "loop", "sleeping", "crashed"
    pc,
    \* the homeserver: the member sets of the bot's rooms, the next event id
    rooms, nextEventId,
    \* client.rooms as the initial sync filled it: the rooms the homeserver
    \* had when the process started
    client_rooms,
    \* history: the event of the last step, the transport calls its handler
    \* made, the number of the process lifetime
    lastEvent, calls, lifetime,
    \* history, per lifetime: genuine joins and profile-only changes handled
    \* after catch-up, threshold reposts fired, users a DM was attempted for
    \* and users an invite call ended with marking
    nJoins, nProfile, nReposts, welcomeAttempted, tipsAttempted, inviteMarked,
    \* history over all lifetimes: users a DM was attempted for, users an
    \* invite call marked
    everWelcomed, everTipped, everInvited,
    \* a reaction key handed to is_checkmark, and what is_checkmark returned
    key_in, verdict,
    \* the events of the sync response being processed that client.sync has
    \* not yet handed to a callback
    batch

config == <<RULES_TEXT, WELCOME_TEXT, TIPS_TEXT, REPOST_EVERY_N_JOINS>>
engine == <<invited_users, welcomed_users, rules_event_ids, join_count>>
history == <<nJoins, nProfile, nReposts, welcomeAttempted, tipsAttempted,
             inviteMarked, everWelcomed, everTipped, everInvited>>
classifier == <<key_in, verdict>>
program == <<config, engine, initial_sync_done, pc, rooms, nextEventId, client_rooms,
          lastEvent, calls, lifetime, history, batch>>
vars == <<program, classifier>>

\* ------------------------------------------------------------- events
NoEvent == [kind |-> "none", room |-> "-", sender |-> NoUser, membership |-> "-",
            prev_membership |-> "-", type |-> "-", reacts_to |-> NoEventId, key |-> NoKey]

\* (membership, prev_membership) of a RoomMemberEvent: a join, a profile-only
\* change of a joined user, an invite, a leave, a ban
MemberChanges == { <<"join", "none">>, <<"join", "join">>, <<"invite", "none">>,
                   <<"leave", "join">>, <<"ban", "join">> }

MemberEv(r, u, m) ==
    [kind |-> "member", room |-> r, sender |-> u, membership |-> m[1],
     prev_membership |-> m[2], type |-> "m.room.member",
     reacts_to |-> NoEventId, key |-> NoKey]

\* every membership change in the gated room, a join in another room
MemberEvents ==
    { MemberEv(TARGET_ROOM_ID, u, m) : u \in Users, m \in MemberChanges }
      \cup { MemberEv(OtherRoomId, u, <<"join", "none">>) : u \in Users }

Targets == {NoEventId, ForeignEventId} \cup (TARGET_EVENT_ID .. MaxPosts)

\* the (room, target, key) of the reactions delivered: a check mark on every
\* target, every key on the configured message, a check mark on the
\* configured message in another room
ReactionShapes ==
    { <<TARGET_ROOM_ID, t, <<WHITE_HEAVY_CHECK_MARK>> >> : t \in Targets }
      \cup { <<TARGET_ROOM_ID, TARGET_EVENT_ID, k>> : k \in Keys \cup {NoKey} }
      \cup { <<OtherRoomId, TARGET_EVENT_ID, <<WHITE_HEAVY_CHECK_MARK>> >> }

ReactionEv(k, u, ty, s) ==
    [kind |-> k, room |-> s[1], sender |-> u, membership |-> "-",
     prev_membership |-> "-", type |-> ty, reacts_to |-> s[2], key |-> s[3]]

\* a reaction as nio 0.25+ delivers it (ReactionEvent) and as older versions
\* do (UnknownEvent of type m.reaction); the bot's own reactions are check
\* marks on the configured message
ReactionEvents ==
    { ReactionEv(k, u, "m.reaction", s) :
        k \in {"reaction", "unknown"}, u \in Users \ {BotId}, s \in ReactionShapes }
      \cup { ReactionEv(k, BotId, "m.reaction",
                        <<TARGET_ROOM_ID, TARGET_EVENT_ID, <<WHITE_HEAVY_CHECK_MARK>> >>) :
               k \in {"reaction", "unknown"} }

\* an UnknownEvent that is no reaction
OtherEvents ==
    { ReactionEv("unknown", "@u1", "m.other",
                 <<TARGET_ROOM_ID, TARGET_EVENT_ID, <<WHITE_HEAVY_CHECK_MARK>> >>) }

\* ------------------------------------------------------------- is_checkmark
RECURSIVE Remove(_, _)
\* str.replace(c, "") on a sequence of code points
Remove(s, c) ==
    IF s = << >> THEN << >>
    ELSE IF Head(s) = c THEN Remove(Tail(s), c)
    ELSE <<Head(s)>> \o Remove(Tail(s), c)

\* is_checkmark that strips U+FE0F only
is_checkmark_strip_vs16_only(key) ==
    LET stripped == Remove(key, VS16)
    IN stripped \in { <<WHITE_HEAVY_CHECK_MARK>>, <<HEAVY_CHECK_MARK>>, <<BALLOT_BOX_WITH_CHECK>> }

is_checkmark(key) ==
    LET stripped == Remove(Remove(key, VS15), VS16)
    IN stripped \in { <<WHITE_HEAVY_CHECK_MARK>>, <<HEAVY_CHECK_MARK>>, <<BALLOT_BOX_WITH_CHECK>> }

\* getattr(event, "key", "") and relates_to.get("key", "")
KeyOrEmpty(k) == IF k = NoKey THEN << >> ELSE k

\* ------------------------------------------------------------- transport calls
\* A transport call ends in one of several ways the handler cannot choose, so
\* each operator below gives the set of the results its code can end with.
Call(op, user, body, res) == [op |-> op, user |-> user, body |-> body, res |-> res]

\* send_dm: room_create, then room_send into the new room; every failure is
\* caught and gives False.  A created room has the bot and the invited user.
send_dm(rms, user_id, body) ==
    { [ok |-> FALSE, rooms |-> rms,
       calls |-> << Call("room_create", user_id, body, c) >>] : c \in Res \ {"ok"} }
    \cup
    { [ok |-> (s = "ok"), rooms |-> rms \cup {{BotId, user_id}},
       calls |-> << Call("room_create", user_id, body, "ok"),
                    Call("room_send", user_id, body, s) >>] : s \in Res }

\* the homeserver accepts a rules message while it has identifiers left
RulesSendRes(nid) == IF nid <= MaxPosts THEN Res ELSE Res \ {"ok"}

\* post_rules that tracks the newest rules message only
post_rules_newest_only(ids, nid) ==
    IF ~RULES_TEXT
    THEN { [ids |-> ids, nid |-> nid, calls |-> << >>, raised |-> FALSE] }
    ELSE { [ids |-> IF p = "ok" THEN {nid} ELSE ids,
            nid |-> IF p = "ok" THEN nid + 1 ELSE nid,
            calls |-> << Call("room_send", NoUser, "rules", p) >>,
            raised |-> (p = "raise")] : p \in RulesSendRes(nid) }

\* post_rules that tracks an identifier for an error response too
post_rules_tracks_on_error(ids, nid) ==
    IF ~RULES_TEXT
    THEN { [ids |-> ids, nid |-> nid, calls |-> << >>, raised |-> FALSE] }
    ELSE { [ids |-> IF p # "raise" THEN ids \cup {nid} ELSE ids,
            nid |-> IF p # "raise" THEN nid + 1 ELSE nid,
            calls |-> << Call("room_send", NoUser, "rules", p) >>,
            raised |-> (p = "raise")] : p \in RulesSendRes(nid) }

\* post_rules: one room_send to the gated room; only a RoomSendResponse adds
\* an identifier; an exception of room_send is not caught here
post_rules(ids, nid) ==
    IF ~RULES_TEXT
    THEN { [ids |-> ids, nid |-> nid, calls |-> << >>, raised |-> FALSE] }
    ELSE { [ids |-> IF p = "ok" THEN ids \cup {nid} ELSE ids,
            nid |-> IF p = "ok" THEN nid + 1 ELSE nid,
            calls |-> << Call("room_send", NoUser, "rules", p) >>,
            raised |-> (p = "raise")] : p \in RulesSendRes(nid) }

\* send_welcome_dm without the look at welcomed_users
send_welcome_dm_no_ledger_check(wel, rms, user_id) ==
    IF user_id = BotId \/ ~WELCOME_TEXT
    THEN { [welcomed |-> wel, rooms |-> rms, calls |-> << >>] }
    ELSE { [welcomed |-> wel \cup {user_id}, rooms |-> d.rooms, calls |-> d.calls] :
             d \in send_dm(rms, user_id, "welcome") }

\* send_welcome_dm that marks the user only when the DM was sent
send_welcome_dm_mark_on_success(wel, rms, user_id) ==
    IF user_id = BotId \/ user_id \in wel \/ ~WELCOME_TEXT
    THEN { [welcomed |-> wel, rooms |-> rms, calls |-> << >>] }
    ELSE { [welcomed |-> IF d.ok THEN wel \cup {user_id} ELSE wel,
            rooms |-> d.rooms, calls |-> d.calls] :
             d \in send_dm(rms, user_id, "welcome") }

send_welcome_dm(wel, rms, user_id) ==
    IF user_id = BotId \/ user_id \in wel \/ ~WELCOME_TEXT
    THEN { [welcomed |-> wel, rooms |-> rms, calls |-> << >>] }
    ELSE { [welcomed |-> wel \cup {user_id}, rooms |-> d.rooms, calls |-> d.calls] :
             d \in send_dm(rms, user_id, "welcome") }

send_tips_dm(rms, user_id) ==
    IF user_id = BotId \/ ~TIPS_TEXT
    THEN { [rooms |-> rms, calls |-> << >>] }
    ELSE { [rooms |-> d.rooms, calls |-> d.calls] : d \in send_dm(rms, user_id, "tips") }

\* handle_invite without the look at invited_users
handle_invite_no_ledger_check(inv, rms, user_id) ==
    IF user_id = BotId
    THEN { [invited |-> inv, rooms |-> rms, calls |-> << >>] }
    ELSE { [invited |-> inv, rooms |-> rms,
            calls |-> << Call("room_invite", user_id, "-", "raise_other") >>] }
         \cup
         UNION { { [invited |-> inv \cup {user_id}, rooms |-> t.rooms,
                    calls |-> << Call("room_invite", user_id, "-", i) >> \o t.calls] :
                      t \in send_tips_dm(rms, user_id) } :
                   i \in InviteRes \ {"raise_other"} }

\* handle_invite that returns on every exception, "already in the room" too
handle_invite_already_is_failure(inv, rms, user_id) ==
    IF user_id = BotId \/ user_id \in inv
    THEN { [invited |-> inv, rooms |-> rms, calls |-> << >>] }
    ELSE { [invited |-> inv, rooms |-> rms,
            calls |-> << Call("room_invite", user_id, "-", i) >>] :
              i \in {"raise_other", "raise_already"} }
         \cup
         UNION { { [invited |-> inv \cup {user_id}, rooms |-> t.rooms,
                    calls |-> << Call("room_invite", user_id, "-", i) >> \o t.calls] :
                      t \in send_tips_dm(rms, user_id) } :
                   i \in InviteRes \ {"raise_other", "raise_already"} }

\* handle_invite that never marks the user
handle_invite_never_marks(inv, rms, user_id) ==
    IF user_id = BotId \/ user_id \in inv
    THEN { [invited |-> inv, rooms |-> rms, calls |-> << >>] }
    ELSE { [invited |-> inv, rooms |-> rms,
            calls |-> << Call("room_invite", user_id, "-", "raise_other") >>] }
         \cup
         UNION { { [invited |-> inv, rooms |-> t.rooms,
                    calls |-> << Call("room_invite", user_id, "-", i) >> \o t.calls] :
                      t \in send_tips_dm(rms, user_id) } :
                   i \in InviteRes \ {"raise_other"} }

\* handle_invite: only an exception without "already in the room" returns
\* before the user is marked; an error response is logged and falls through
handle_invite(inv, rms, user_id) ==
    IF user_id = BotId \/ user_id \in inv
    THEN { [invited |-> inv, rooms |-> rms, calls |-> << >>] }
    ELSE { [invited |-> inv, rooms |-> rms,
            calls |-> << Call("room_invite", user_id, "-", "raise_other") >>] }
         \cup
         UNION { { [invited |-> inv \cup {user_id}, rooms |-> t.rooms,
                    calls |-> << Call("room_invite", user_id, "-", i) >> \o t.calls] :
                      t \in send_tips_dm(rms, user_id) } :
                   i \in InviteRes \ {"raise_other"} }

\* ------------------------------------------------------------- event handlers
\* on_member_event that reposts when the count exceeds the threshold
on_member_event_exceeds(jc, ids, nid, wel, rms, ev) ==
    LET same == { [join_count |-> jc, ids |-> ids, nid |-> nid, welcomed |-> wel,
                   rooms |-> rms, calls |-> << >>, fired |-> FALSE, raised |-> FALSE] }
    IN  IF ~initial_sync_done THEN same
        ELSE IF ev.room # TARGET_ROOM_ID THEN same
        ELSE IF ev.membership # "join" THEN same
        ELSE IF ev.sender = BotId THEN same
        ELSE IF jc + 1 > REPOST_EVERY_N_JOINS
        THEN UNION { IF p.raised
                     THEN { [join_count |-> 0, ids |-> p.ids, nid |-> p.nid,
                             welcomed |-> wel, rooms |-> rms, calls |-> p.calls,
                             fired |-> TRUE, raised |-> TRUE] }
                     ELSE { [join_count |-> 0, ids |-> p.ids, nid |-> p.nid,
                             welcomed |-> w.welcomed, rooms |-> w.rooms,
                             calls |-> p.calls \o w.calls,
                             fired |-> TRUE, raised |-> FALSE] :
                               w \in send_welcome_dm(wel, rms, ev.sender) } :
                       p \in post_rules(ids, nid) }
        ELSE { [join_count |-> jc + 1, ids |-> ids, nid |-> nid,
                welcomed |-> w.welcomed, rooms |-> w.rooms, calls |-> w.calls,
                fired |-> FALSE, raised |-> FALSE] :
                  w \in send_welcome_dm(wel, rms, ev.sender) }

\* on_member_event that reposts only when the count equals the threshold
on_member_event_equals(jc, ids, nid, wel, rms, ev) ==
    LET same == { [join_count |-> jc, ids |-> ids, nid |-> nid, welcomed |-> wel,
                   rooms |-> rms, calls |-> << >>, fired |-> FALSE, raised |-> FALSE] }
    IN  IF ~initial_sync_done THEN same
        ELSE IF ev.room # TARGET_ROOM_ID THEN same
        ELSE IF ev.membership # "join" THEN same
        ELSE IF ev.sender = BotId THEN same
        ELSE IF jc + 1 = REPOST_EVERY_N_JOINS
        THEN UNION { IF p.raised
                     THEN { [join_count |-> 0, ids |-> p.ids, nid |-> p.nid,
                             welcomed |-> wel, rooms |-> rms, calls |-> p.calls,
                             fired |-> TRUE, raised |-> TRUE] }
                     ELSE { [join_count |-> 0, ids |-> p.ids, nid |-> p.nid,
                             welcomed |-> w.welcomed, rooms |-> w.rooms,
                             calls |-> p.calls \o w.calls,
                             fired |-> TRUE, raised |-> FALSE] :
                               w \in send_welcome_dm(wel, rms, ev.sender) } :
                       p \in post_rules(ids, nid) }
        ELSE { [join_count |-> jc + 1, ids |-> ids, nid |-> nid,
                welcomed |-> w.welcomed, rooms |-> w.rooms, calls |-> w.calls,
                fired |-> FALSE, raised |-> FALSE] :
                  w \in send_welcome_dm(wel, rms, ev.sender) }

\* on_member_event; fired: post_rules was called; raised: the exception of
\* post_rules left the handler before send_welcome_dm
on_member_event(jc, ids, nid, wel, rms, ev) ==
    LET same == { [join_count |-> jc, ids |-> ids, nid |-> nid, welcomed |-> wel,
                   rooms |-> rms, calls |-> << >>, fired |-> FALSE, raised |-> FALSE] }
    IN  IF ~initial_sync_done THEN same
        ELSE IF ev.room # TARGET_ROOM_ID THEN same
        ELSE IF ev.membership # "join" THEN same
        ELSE IF ev.sender = BotId THEN same
        ELSE IF jc + 1 >= REPOST_EVERY_N_JOINS
        THEN UNION { IF p.raised
                     THEN { [join_count |-> 0, ids |-> p.ids, nid |-> p.nid,
                             welcomed |-> wel, rooms |-> rms, calls |-> p.calls,
                             fired |-> TRUE, raised |-> TRUE] }
                     ELSE { [join_count |-> 0, ids |-> p.ids, nid |-> p.nid,
                             welcomed |-> w.welcomed, rooms |-> w.rooms,
                             calls |-> p.calls \o w.calls,
                             fired |-> TRUE, raised |-> FALSE] :
                               w \in send_welcome_dm(wel, rms, ev.sender) } :
                       p \in post_rules(ids, nid) }
        ELSE { [join_count |-> jc + 1, ids |-> ids, nid |-> nid,
                welcomed |-> w.welcomed, rooms |-> w.rooms, calls |-> w.calls,
                fired |-> FALSE, raised |-> FALSE] :
                  w \in send_welcome_dm(wel, rms, ev.sender) }

\* on_reaction_event without the look at rules_event_ids
on_reaction_event_any_target(inv, ids, rms, ev) ==
    LET same == { [invited |-> inv, rooms |-> rms, calls |-> << >>] }
        key == KeyOrEmpty(ev.key)
    IN  IF ev.room # TARGET_ROOM_ID THEN same
        ELSE IF ~is_checkmark(key) THEN same
        ELSE handle_invite(inv, rms, ev.sender)

\* on_reaction_event that waits for the end of the initial sync
on_reaction_event_after_catch_up(inv, ids, rms, ev) ==
    LET same == { [invited |-> inv, rooms |-> rms, calls |-> << >>] }
        key == KeyOrEmpty(ev.key)
    IN  IF ~initial_sync_done THEN same
        ELSE IF ev.room # TARGET_ROOM_ID THEN same
        ELSE IF ev.reacts_to \notin ids THEN same
        ELSE IF ~is_checkmark(key) THEN same
        ELSE handle_invite(inv, rms, ev.sender)

on_reaction_event(inv, ids, rms, ev) ==
    LET same == { [invited |-> inv, rooms |-> rms, calls |-> << >>] }
        key == KeyOrEmpty(ev.key)
    IN  IF ev.room # TARGET_ROOM_ID THEN same
        ELSE IF ev.reacts_to \notin ids THEN same
        ELSE IF ~is_checkmark(key) THEN same
        ELSE handle_invite(inv, rms, ev.sender)

\* on_unknown_event without the look at the room
on_unknown_event_any_room(inv, ids, rms, ev) ==
    LET same == { [invited |-> inv, rooms |-> rms, calls |-> << >>] }
        reaction_key == KeyOrEmpty(ev.key)
    IN  IF ev.type # "m.reaction" THEN same
        ELSE IF ev.reacts_to \notin ids THEN same
        ELSE IF ~is_checkmark(reaction_key) THEN same
        ELSE handle_invite(inv, rms, ev.sender)

\* on_unknown_event without the look at the key
on_unknown_event_any_key(inv, ids, rms, ev) ==
    LET same == { [invited |-> inv, rooms |-> rms, calls |-> << >>] }
    IN  IF ev.room # TARGET_ROOM_ID THEN same
        ELSE IF ev.type # "m.reaction" THEN same
        ELSE IF ev.reacts_to \notin ids THEN same
        ELSE handle_invite(inv, rms, ev.sender)

on_unknown_event(inv, ids, rms, ev) ==
    LET same == { [invited |-> inv, rooms |-> rms, calls |-> << >>] }
        reaction_key == KeyOrEmpty(ev.key)
    IN  IF ev.room # TARGET_ROOM_ID THEN same
        ELSE IF ev.type # "m.reaction" THEN same
        ELSE IF ev.reacts_to \notin ids THEN same
        ELSE IF ~is_checkmark(reaction_key) THEN same
        ELSE handle_invite(inv, rms, ev.sender)

\* a seeding that takes the first member of the room, the bot, as the other
SeedWelcomed_first_member(wel, rms) ==
    wel \cup { u \in Users : \E members \in rms :
                 /\ Cardinality(members) = 2
                 /\ BotId \in members
                 /\ u \in members /\ u = BotId }

\* the users of the rooms with exactly two members, one of them the bot
SeedWelcomed(wel, rms) ==
    wel \cup { u \in Users : \E members \in rms :
                 /\ Cardinality(members) = 2
                 /\ BotId \in members
                 /\ u \in members /\ u # BotId }

\* ------------------------------------------------------------- history helpers
\* the users a DM with this body was attempted for in a sequence of calls
DmUsers(cs, body) ==
    { cs[i].user : i \in { j \in 1..Len(cs) : cs[j].op = "room_create" /\ cs[j].body = body } }

InviteCalls(cs) == { i \in 1..Len(cs) : cs[i].op = "room_invite" }
RulesCalls(cs) == { i \in 1..Len(cs) : cs[i].op = "room_send" /\ cs[i].body = "rules" }

\* a membership event the handler is to count: after catch-up, in the gated
\* room, membership "join", not the bot's own
JoinShaped(ev) ==
    /\ pc # "init_sync"
    /\ ev.room = TARGET_ROOM_ID
    /\ ev.membership = "join"
    /\ ev.sender # BotId
\* a profile-only change: already joined before the event
ProfileOnly(ev) == ev.membership = "join" /\ ev.prev_membership = "join"
QualifyingJoin(ev) == JoinShaped(ev) /\ ~ProfileOnly(ev)

\* ------------------------------------------------------------- Init
\* int(os.environ.get("REPOST_EVERY_N_JOINS", "10"))
DefaultThreshold == 10
Thresholds == {0 - 1, 0} \cup (1 .. MaxThreshold)
\* client.rooms at the first start: the gated room (the bot and both users)
\* and a direct room with @u1 from an earlier run; @u2 has none
InitialRoomLists == { { Users, {BotId, "@u1"} } }

\* the state of main() when it calls the initial sync, on a homeserver that
\* has given out no event identifier yet
Started ==
    /\ invited_users = {}
    /\ welcomed_users = {}
    /\ rules_event_ids = {TARGET_EVENT_ID}
    /\ join_count = 0
    /\ initial_sync_done = FALSE
    /\ pc = "init_sync"
    /\ rooms \in InitialRoomLists
    /\ client_rooms = rooms
    /\ nextEventId = 1
    /\ lastEvent = NoEvent
    /\ calls = << >>
    /\ batch = << >>
    /\ lifetime = 0
    /\ nJoins = 0 /\ nProfile = 0 /\ nReposts = 0
    /\ welcomeAttempted = {} /\ tipsAttempted = {} /\ inviteMarked = {}
    /\ everWelcomed = {} /\ everTipped = {} /\ everInvited = {}

\* is_checkmark has been called with no key of its own
NoKeyClassified == key_in = << >> /\ verdict = FALSE

\* the configurations: a text is set or empty, at most one of the three is
\* empty; a negative, a zero and the positive thresholds
Init ==
    /\ RULES_TEXT \in BOOLEAN
    /\ WELCOME_TEXT \in BOOLEAN
    /\ TIPS_TEXT \in BOOLEAN
    /\ Cardinality({ i \in 1..3 : ~(<<RULES_TEXT, WELCOME_TEXT, TIPS_TEXT>>[i]) }) <= 1
    /\ REPOST_EVERY_N_JOINS \in Thresholds
    /\ Started
    /\ NoKeyClassified

\* ------------------------------------------------------------- actions
\* the callback of the last event has returned to client.sync
Idle == lastEvent = NoEvent /\ calls = << >>
\* client.sync is running and hands the next event to its callback
Receiving == pc \in {"init_sync", "loop"} /\ Idle

\* a RoomMemberEvent is delivered to on_member_event
MemberEvent(ev) ==
    /\ Receiving
    /\ JoinShaped(ev) => nJoins + nProfile < MaxJoins
    /\ \E r \in on_member_event(join_count, rules_event_ids, nextEventId,
                                welcomed_users, rooms, ev) :
           /\ join_count' = r.join_count
           /\ rules_event_ids' = r.ids
           /\ nextEventId' = r.nid
           /\ welcomed_users' = r.welcomed
           /\ rooms' = r.rooms
           /\ calls' = r.calls
           /\ pc' = IF r.raised THEN "sleeping" ELSE pc
           /\ nReposts' = nReposts + (IF r.fired THEN 1 ELSE 0)
           /\ welcomeAttempted' = welcomeAttempted \cup DmUsers(r.calls, "welcome")
           /\ everWelcomed' = everWelcomed \cup DmUsers(r.calls, "welcome")
    /\ nJoins' = nJoins + (IF QualifyingJoin(ev) THEN 1 ELSE 0)
    /\ nProfile' = nProfile + (IF JoinShaped(ev) /\ ProfileOnly(ev) THEN 1 ELSE 0)
    /\ lastEvent' = ev
    /\ UNCHANGED <<config, invited_users, initial_sync_done, lifetime, client_rooms,
                   tipsAttempted, inviteMarked, everTipped, everInvited, classifier, batch>>

\* what both reaction handlers do with their result
ReactionStep(ev, r) ==
    /\ invited_users' = r.invited
    /\ rooms' = r.rooms
    /\ calls' = r.calls
    /\ tipsAttempted' = tipsAttempted \cup DmUsers(r.calls, "tips")
    /\ everTipped' = everTipped \cup DmUsers(r.calls, "tips")
    /\ inviteMarked' = inviteMarked \cup (r.invited \ invited_users)
    /\ everInvited' = everInvited \cup (r.invited \ invited_users)
    /\ lastEvent' = ev
    /\ UNCHANGED <<config, welcomed_users, rules_event_ids, join_count,
                   initial_sync_done, pc, nextEventId, lifetime, client_rooms,
                   nJoins, nProfile, nReposts, welcomeAttempted, everWelcomed,
                   classifier, batch>>

\* a ReactionEvent is delivered to on_reaction_event
ReactionEvent(ev) ==
    /\ Receiving
    /\ ev.kind = "reaction"
    /\ \E r \in on_reaction_event(invited_users, rules_event_ids, rooms, ev) :
           ReactionStep(ev, r)

\* an UnknownEvent is delivered to on_unknown_event
UnknownEvent(ev) ==
    /\ Receiving
    /\ ev.kind = "unknown"
    /\ \E r \in on_unknown_event(invited_users, rules_event_ids, rooms, ev) :
           ReactionStep(ev, r)

\* the initial sync returns: the flag, the seeding of welcomed_users from
\* client.rooms, the startup post
InitialSyncDone ==
    /\ pc = "init_sync" /\ Idle
    /\ initial_sync_done' = TRUE
    /\ welcomed_users' = SeedWelcomed(welcomed_users, client_rooms)
    /\ \E p \in post_rules(rules_event_ids, nextEventId) :
           /\ rules_event_ids' = p.ids
           /\ nextEventId' = p.nid
           /\ calls' = p.calls
           /\ pc' = IF p.raised THEN "crashed" ELSE "loop"
    /\ lastEvent' = NoEvent
    /\ UNCHANGED <<config, invited_users, join_count, rooms, client_rooms, lifetime, history,
                   classifier, batch>>

\* the initial sync raises: nothing catches it
InitialSyncFail ==
    /\ pc = "init_sync" /\ Idle
    /\ pc' = "crashed"
    /\ lastEvent' = NoEvent
    /\ calls' = << >>
    /\ UNCHANGED <<config, engine, initial_sync_done, rooms, nextEventId, client_rooms,
                   lifetime, history, classifier, batch>>

\* client.sync raises inside the loop: logged, then asyncio.sleep(5)
SyncFail ==
    /\ pc = "loop" /\ Idle
    /\ pc' = "sleeping"
    /\ lastEvent' = NoEvent
    /\ calls' = << >>
    /\ UNCHANGED <<config, engine, initial_sync_done, rooms, nextEventId, client_rooms,
                   lifetime, history, classifier, batch>>

\* the sleep ends and the loop calls client.sync again
Wake ==
    /\ pc = "sleeping" /\ Idle
    /\ pc' = "loop"
    /\ lastEvent' = NoEvent
    /\ calls' = << >>
    /\ UNCHANGED <<config, engine, initial_sync_done, rooms, nextEventId, client_rooms,
                   lifetime, history, classifier, batch>>

\* the callback (or the startup post) returns: client.sync goes on to the
\* next event; nothing of the program's state changes
Returned ==
    /\ ~Idle
    /\ lastEvent' = NoEvent
    /\ calls' = << >>
    /\ UNCHANGED <<config, engine, initial_sync_done, pc, rooms, nextEventId, client_rooms,
                   lifetime, history, classifier, batch>>

\* the process is started again: main() builds its state anew; the
\* homeserver keeps its rooms and messages, and the initial sync will fill
\* client.rooms from them
Restart ==
    /\ Idle
    /\ lifetime < MaxRestarts
    /\ lifetime' = lifetime + 1
    /\ invited_users' = {}
    /\ welcomed_users' = {}
    /\ rules_event_ids' = {TARGET_EVENT_ID}
    /\ join_count' = 0
    /\ initial_sync_done' = FALSE
    /\ pc' = "init_sync"
    /\ lastEvent' = NoEvent
    /\ calls' = << >>
    /\ nJoins' = 0 /\ nProfile' = 0 /\ nReposts' = 0
    /\ welcomeAttempted' = {} /\ tipsAttempted' = {} /\ inviteMarked' = {}
    /\ client_rooms' = rooms
    /\ UNCHANGED <<config, rooms, nextEventId, everWelcomed, everTipped, everInvited,
                   classifier, batch>>

Next ==
    \/ \E ev \in MemberEvents : MemberEvent(ev)
    \/ \E ev \in ReactionEvents : ReactionEvent(ev)
    \/ \E ev \in ReactionEvents \cup OtherEvents : UnknownEvent(ev)
    \/ InitialSyncDone
    \/ InitialSyncFail
    \/ SyncFail
    \/ Wake
    \/ Returned

\* one process lifetime
Spec == Init /\ [][Next]_vars

\* several lifetimes of one configuration: every text set, the default
\* threshold
InitRestart ==
    /\ RULES_TEXT = TRUE /\ WELCOME_TEXT = TRUE /\ TIPS_TEXT = TRUE
    /\ REPOST_EVERY_N_JOINS = DefaultThreshold
    /\ Started
    /\ NoKeyClassified

NextRestart == Next \/ Restart

SpecRestart == InitRestart /\ [][NextRestart]_vars

\* ------------------------------------------------------------- two reactions in one response
\* what a reaction handler does with its result when the event is one of a
\* response with several: as ReactionStep, the calls added to those of the
\* events before it
BatchStep(ev, r, rest) ==
    /\ invited_users' = r.invited
    /\ rooms' = r.rooms
    /\ calls' = calls \o r.calls
    /\ tipsAttempted' = tipsAttempted \cup DmUsers(r.calls, "tips")
    /\ everTipped' = everTipped \cup DmUsers(r.calls, "tips")
    /\ inviteMarked' = inviteMarked \cup (r.invited \ invited_users)
    /\ everInvited' = everInvited \cup (r.invited \ invited_users)
    /\ lastEvent' = ev
    /\ batch' = rest
    /\ UNCHANGED <<config, welcomed_users, rules_event_ids, join_count,
                   initial_sync_done, pc, nextEventId, lifetime, client_rooms,
                   nJoins, nProfile, nReposts, welcomeAttempted, everWelcomed,
                   classifier>>

\* the callback registered for the event's class, run on the state as it is
Dispatch(ev) ==
    IF ev.kind = "reaction"
    THEN on_reaction_event(invited_users, rules_event_ids, rooms, ev)
    ELSE on_unknown_event(invited_users, rules_event_ids, rooms, ev)

\* client.sync gets a response with two reactions of one sender and awaits
\* the callback of the first; the second waits its turn
SyncBatch(ev1, ev2) ==
    /\ Receiving
    /\ batch = << >>
    /\ ev1.sender = ev2.sender
    /\ \E r \in Dispatch(ev1) : BatchStep(ev1, r, <<ev2>>)

\* the callback before has returned: client.sync awaits the callback of the
\* next event of the response
BatchNext ==
    /\ batch # << >>
    /\ \E r \in Dispatch(Head(batch)) : BatchStep(Head(batch), r, Tail(batch))

\* the last callback of the response has returned
BatchReturned ==
    /\ batch = << >>
    /\ Returned

NextBatch ==
    \/ \E ev1, ev2 \in ReactionEvents : SyncBatch(ev1, ev2)
    \/ BatchNext
    \/ BatchReturned
    \/ InitialSyncDone

\* responses with two reactions of one sender, every text set, the default
\* threshold
SpecBatch == InitRestart /\ [][NextBatch]_vars

\* ------------------------------------------------------------- is_checkmark alone
\* the code points keys are made of: the three check marks, the two variation
\* selectors, the thumbs-up
KeyAlphabet == {WHITE_HEAVY_CHECK_MARK, HEAVY_CHECK_MARK, BALLOT_BOX_WITH_CHECK,
                VS15, VS16, 128077}
KeyStrings == UNION { [1..n -> KeyAlphabet] : n \in 0..MaxKeyLen }
Selectors == {VS15, VS16}

\* is_checkmark is called with some key; main() is left as it starts
InitClassify ==
    /\ RULES_TEXT = TRUE /\ WELCOME_TEXT = TRUE /\ TIPS_TEXT = TRUE
    /\ REPOST_EVERY_N_JOINS = DefaultThreshold
    /\ Started
    /\ key_in \in KeyStrings
    /\ verdict = is_checkmark(key_in)

\* is_checkmark is called with the last key and a selector appended
AppendSelector(vs) ==
    /\ Len(key_in) < MaxKeyLen + MaxSelectors
    /\ key_in' = key_in \o <<vs>>
    /\ verdict' = is_checkmark(key_in')
    /\ UNCHANGED program

\* is_checkmark is called with the last key and a selector put in after its
\* first i code points, before the end
InsertSelector(i, vs) ==
    /\ Len(key_in) < MaxKeyLen + MaxSelectors
    /\ i < Len(key_in)
    /\ key_in' = SubSeq(key_in, 1, i) \o <<vs>> \o SubSeq(key_in, i + 1, Len(key_in))
    /\ verdict' = is_checkmark(key_in')
    /\ UNCHANGED program

NextClassify ==
    \/ \E vs \in Selectors : AppendSelector(vs)
    \/ \E vs \in Selectors : \E i \in 0..(MaxKeyLen + MaxSelectors) : InsertSelector(i, vs)

SpecClassify == InitClassify /\ [][NextClassify]_vars

\* ------------------------------------------------------------- claims
\* what a step's calls and event say
InviteCallsFor(cs, u) == { i \in InviteCalls(cs) : cs[i].user = u }
DmCallsFor(cs, body, u) ==
    { i \in 1..Len(cs) : cs[i].op = "room_create" /\ cs[i].body = body /\ cs[i].user = u }
IsReaction(ev) == ev.kind \in {"reaction", "unknown"} /\ ev.type = "m.reaction"
\* a check mark glyph, alone or followed by one variation selector
AcceptanceKeys ==
    { <<g>> \o v : g \in {WHITE_HEAVY_CHECK_MARK, HEAVY_CHECK_MARK, BALLOT_BOX_WITH_CHECK},
                   v \in { << >>, <<VS15>>, <<VS16>> } }
\* an acceptance reaction on a tracked message of the gated room
AcceptanceOnTracked(ev) ==
    /\ IsReaction(ev)
    /\ ev.room = TARGET_ROOM_ID
    /\ ev.reacts_to \in rules_event_ids
    /\ ev.key \in AcceptanceKeys

\* C1: within one process lifetime invited_users never loses a member, and a
\* step that starts with U in invited_users makes no invite call and no tips
\* DM for U; so an invite call that ends with U marked started with U unmarked.
C1_InvitedOnce ==
    [][ \A u \in Users :
          /\ u \in invited_users =>
               /\ u \in invited_users'
               /\ InviteCallsFor(calls', u) = {}
               /\ DmCallsFor(calls', "tips", u) = {}
          /\ (InviteCallsFor(calls', u) # {} /\ u \in invited_users') => u \notin inviteMarked
      ]_vars

\* C1 witness: an acceptance reaction on a tracked message from a user whom an
\* earlier invite call marked (and who got the tips DM) was handled with no call
C1_Witness ==
    /\ AcceptanceOnTracked(lastEvent)
    /\ lastEvent.sender \in inviteMarked
    /\ lastEvent.sender \in tipsAttempted
    /\ lastEvent.sender \in invited_users
    /\ calls = << >>

\* C2: an invite call that fails for another reason than "already in the
\* room", by exception or by error response, leaves the user out of
\* invited_users and is followed by no tips DM.
C2_FailedInviteNotLedgered ==
    [][ \A i \in InviteCalls(calls') :
          calls'[i].res \in {"err_other", "raise_other"} =>
            /\ calls'[i].user \notin invited_users'
            /\ DmCallsFor(calls', "tips", calls'[i].user) = {}
      ]_vars

\* C3: an invite call that succeeds or fails with "already in the room" marks
\* the user, and exactly one tips DM for the user follows it in the same
\* handler when tips are configured (none otherwise); the user stays marked
\* whatever the DM's result, and a user the tips DM was attempted for gets
\* no second one.
C3_InviteThenTips ==
    [][ /\ \A i \in InviteCalls(calls') :
             calls'[i].res \in {"ok", "err_already", "raise_already"} =>
               LET u == calls'[i].user
                   tips == DmCallsFor(calls', "tips", u)
               IN  /\ u \in invited_users'
                   /\ i = 1
                   /\ InviteCalls(calls') = {1}
                   /\ TIPS_TEXT => tips = {2}
                   /\ ~TIPS_TEXT => tips = {}
        /\ \A u \in Users :
             DmCallsFor(calls', "tips", u) # {} =>
               /\ u \notin tipsAttempted
               /\ u \in invited_users'
               /\ InviteCallsFor(calls', u) = {1}
        /\ \A u \in tipsAttempted : u \in invited_users'
      ]_vars

\* C3 witness: the invite raised "already in the room", the user is marked
\* and the one tips DM, attempted after it, failed
C3_Witness ==
    /\ Len(calls) = 2
    /\ calls[1].op = "room_invite" /\ calls[1].res = "raise_already"
    /\ calls[2].op = "room_create" /\ calls[2].body = "tips" /\ calls[2].res = "err"
    /\ calls[2].user = calls[1].user
    /\ calls[1].user \in invited_users
    /\ lastEvent.sender = calls[1].user

\* C4: an invite call, and a change of invited_users, happens only in the
\* step of a reaction in the gated room, on a tracked message, with an
\* acceptance key, from a user who is not the bot and not yet in
\* invited_users, and it is for that user.
C4_InviteOnlyOnAcceptance ==
    [][ (InviteCalls(calls') # {} \/ invited_users' # invited_users) =>
          /\ AcceptanceOnTracked(lastEvent')
          /\ lastEvent'.sender # BotId
          /\ lastEvent'.sender \notin invited_users
          /\ \A i \in InviteCalls(calls') : calls'[i].user = lastEvent'.sender
          /\ invited_users' \subseteq invited_users \cup {lastEvent'.sender}
      ]_vars

\* C4 witness: an invite call made for a check mark on a repost
C4_Witness ==
    /\ InviteCalls(calls) # {}
    /\ lastEvent.reacts_to >= 1
    /\ lastEvent.reacts_to \in rules_event_ids
    /\ lastEvent.kind = "reaction"

\* C5, as stated: over all lifetimes of the process no user gets a second
\* welcome DM, a second tips DM or, once an invite call marked them, a second
\* invite call.
C5_OnceAcrossRestarts ==
    [][ \A u \in Users :
          /\ DmCallsFor(calls', "welcome", u) # {} => u \notin everWelcomed
          /\ DmCallsFor(calls', "tips", u) # {} => u \notin everTipped
          /\ InviteCallsFor(calls', u) # {} => u \notin everInvited
      ]_vars

\* C5, amended: between two restarts no user gets a second welcome DM or a
\* second tips DM, and no user an invite call marked gets another invite call.
C5_OncePerLifetime ==
    [][ lifetime' = lifetime =>
          \A u \in Users :
            /\ DmCallsFor(calls', "welcome", u) # {} => u \notin welcomeAttempted
            /\ DmCallsFor(calls', "tips", u) # {} => u \notin tipsAttempted
            /\ InviteCallsFor(calls', u) # {} => u \notin inviteMarked
            /\ Cardinality(DmCallsFor(calls', "welcome", u)) <= 1
            /\ Cardinality(DmCallsFor(calls', "tips", u)) <= 1
            /\ Cardinality(InviteCallsFor(calls', u)) <= 1
      ]_vars

\* C5 witness: after a restart a user who was invited and sent the tips DM
\* before it is invited and sent the tips DM again
C5_Witness ==
    /\ lifetime >= 1
    /\ \E u \in Users :
         /\ {BotId, u} \in client_rooms
         /\ {BotId, u} \notin UNION InitialRoomLists
         /\ InviteCallsFor(calls, u) # {}
         /\ DmCallsFor(calls, "tips", u) # {}
         /\ u \notin welcomeAttempted

\* C6: with a threshold T > 0 the counter stays in 0 .. T-1, and while the
\* membership events counted in this lifetime are the N qualifying joins, the
\* threshold repost has fired N \div T times and the counter is N % T.
C6_RepostEveryT ==
    REPOST_EVERY_N_JOINS > 0 =>
      /\ 0 <= join_count /\ join_count < REPOST_EVERY_N_JOINS
      /\ nProfile = 0 =>
           /\ nReposts = nJoins \div REPOST_EVERY_N_JOINS
           /\ join_count = nJoins % REPOST_EVERY_N_JOINS

\* C6 witness: threshold 2, three qualifying joins, one repost, counter 1
C6_Witness ==
    /\ REPOST_EVERY_N_JOINS = 2
    /\ nJoins = 3 /\ nProfile = 0
    /\ nReposts = 1 /\ join_count = 1

\* a join of a user who was not in the room, in the gated room, not the bot's
GenuineJoin(ev) ==
    /\ ev.kind = "member"
    /\ ev.room = TARGET_ROOM_ID
    /\ ev.membership = "join" /\ ev.prev_membership # "join"
    /\ ev.sender # BotId

\* C7: a membership event handled during the initial sync changes neither
\* the counter nor welcomed_users and makes no call; a join handled after it
\* counts (the counter goes up by one, or a threshold repost fires) and, for
\* a user not yet welcomed with welcome content configured, a welcome DM is
\* attempted.
C7_CatchUpGuard ==
    [][ lastEvent'.kind = "member" =>
          /\ pc = "init_sync" =>
               /\ join_count' = join_count /\ nReposts' = nReposts
               /\ welcomed_users' = welcomed_users
               /\ calls' = << >>
          /\ (pc = "loop" /\ GenuineJoin(lastEvent')) =>
               /\ join_count' = join_count + 1 \/ nReposts' = nReposts + 1
               /\ (WELCOME_TEXT /\ lastEvent'.sender \notin welcomed_users)
                     => DmCallsFor(calls', "welcome", lastEvent'.sender) # {}
      ]_vars

\* C8: the counter changes, and a threshold repost fires, only in the step of
\* a qualifying join: after catch-up, in the gated room, membership "join"
\* of a user who was not joined before, not the bot's.
C8_OnlyQualifyingJoinsCount ==
    [][ (join_count' # join_count \/ nReposts' # nReposts) =>
          /\ pc = "loop"
          /\ GenuineJoin(lastEvent')
      ]_vars

\* C9: a welcome DM is attempted only for the sender of the join handled, who
\* is not the bot, with welcome content configured, not welcomed and not
\* attempted before; the user is marked in the same step whatever the DM's
\* result, and welcomed_users never loses a member.
C9_WelcomeOnce ==
    [][ /\ \A u \in Users :
             DmCallsFor(calls', "welcome", u) # {} =>
               /\ Cardinality(DmCallsFor(calls', "welcome", u)) = 1
               /\ u = lastEvent'.sender /\ lastEvent'.kind = "member"
               /\ u # BotId
               /\ WELCOME_TEXT
               /\ u \notin welcomeAttempted
               /\ u \notin welcomed_users
               /\ u \in welcomed_users'
        /\ welcomed_users \subseteq welcomed_users'
        /\ welcomeAttempted \subseteq welcomed_users'
      ]_vars

\* C9 witness: a user whose welcome DM failed (no direct room exists) joins
\* again after catch-up and no DM is attempted
C9_Witness ==
    /\ pc = "loop"
    /\ GenuineJoin(lastEvent)
    /\ lastEvent.sender \in welcomeAttempted
    /\ {BotId, lastEvent.sender} \notin rooms
    /\ DmCallsFor(calls, "welcome", lastEvent.sender) = {}

\* C10: once the initial sync is done, every user V who shared a two-member
\* room with the bot when the process started is in welcomed_users, and no
\* welcome DM has been attempted for V in this lifetime.
C10_SeededNotWelcomed ==
    initial_sync_done =>
      \A v \in Users \ {BotId} :
        {BotId, v} \in client_rooms =>
          /\ v \in welcomed_users
          /\ v \notin welcomeAttempted

\* C10 witness: a user whose direct room dates from the lifetime before joins
\* after catch-up and no welcome DM is attempted
C10_Witness ==
    /\ pc = "loop"
    /\ GenuineJoin(lastEvent)
    /\ {BotId, lastEvent.sender} \in client_rooms
    /\ {BotId, lastEvent.sender} \notin UNION InitialRoomLists
    /\ calls = << >>

\* an acceptance reaction on a tracked message from a user who is neither the
\* bot nor in invited_users
Actionable(ev) ==
    /\ AcceptanceOnTracked(ev)
    /\ ev.sender # BotId
    /\ ev.sender \notin invited_users

\* C11: within one process lifetime rules_event_ids never loses a member: it
\* is the configured identifier and every identifier a repost was given; and
\* an acceptance reaction on any of them, from a user who is not the bot and
\* not yet invited, leads to the invite call.
C11_TrackedAppendOnly ==
    [][ /\ rules_event_ids \subseteq rules_event_ids'
        /\ rules_event_ids' = TARGET_EVENT_ID .. (nextEventId' - 1)
        /\ (lastEvent' # NoEvent /\ Actionable(lastEvent')) =>
               InviteCallsFor(calls', lastEvent'.sender) = {1}
      ]_vars

\* C11 witness: after two reposts a check mark on the first of them, no
\* longer the newest rules message, led to the invite call
C11_Witness ==
    /\ nextEventId >= 3
    /\ lastEvent.reacts_to = 1
    /\ lastEvent.reacts_to \in rules_event_ids
    /\ IsReaction(lastEvent)
    /\ InviteCallsFor(calls, lastEvent.sender) = {1}

\* the step fires the repost action: the threshold repost of on_member_event
\* or the startup post after the initial sync
RepostFired ==
    \/ nReposts' = nReposts + 1
    \/ ~initial_sync_done /\ initial_sync_done'

\* C12, as stated: every firing of the repost action with rules content
\* configured makes exactly one rules room_send and rules_event_ids grows by
\* one identifier.
C12_RepostGrowsByOne ==
    [][ (RULES_TEXT /\ RepostFired) =>
          /\ Cardinality(RulesCalls(calls')) = 1
          /\ Cardinality(rules_event_ids') = Cardinality(rules_event_ids) + 1
      ]_vars

\* C12, amended: every firing of the repost action with rules content
\* configured makes exactly one rules room_send, the handler's first call; when
\* it returns a RoomSendResponse rules_event_ids grows by exactly the new
\* identifier, otherwise it is unchanged; no other step sends rules or changes
\* the set.  With threshold T > 0, the T-th of T qualifying joins fires the
\* one threshold repost and leaves the counter 0.
C12_RepostOneCall ==
    [][ /\ (RULES_TEXT /\ RepostFired) =>
             /\ RulesCalls(calls') = {1}
             /\ calls'[1].res = "ok" =>
                   /\ nextEventId \notin rules_event_ids
                   /\ rules_event_ids' = rules_event_ids \cup {nextEventId}
                   /\ nextEventId' = nextEventId + 1
             /\ calls'[1].res # "ok" => rules_event_ids' = rules_event_ids
        /\ ~(RULES_TEXT /\ RepostFired) =>
             /\ RulesCalls(calls') = {}
             /\ rules_event_ids' = rules_event_ids
        /\ (/\ REPOST_EVERY_N_JOINS > 0
            /\ nProfile' = 0
            /\ nJoins' = REPOST_EVERY_N_JOINS /\ nJoins = REPOST_EVERY_N_JOINS - 1) =>
             /\ nReposts = 0 /\ nReposts' = 1
             /\ join_count' = 0
             /\ RULES_TEXT => RulesCalls(calls') = {1}
      ]_vars

\* C12 witness: threshold MaxThreshold, that many qualifying joins and no
\* other membership event: the last join made the one threshold repost, the
\* homeserver gave it an identifier, now tracked, and the counter is 0
C12_Witness ==
    /\ REPOST_EVERY_N_JOINS = MaxThreshold
    /\ nJoins = MaxThreshold /\ nProfile = 0
    /\ nReposts = 1 /\ join_count = 0
    /\ GenuineJoin(lastEvent)
    /\ RulesCalls(calls) = {1} /\ calls[1].res = "ok"
    /\ (nextEventId - 1) \in rules_event_ids

\* the positions of the failed transport calls in a sequence of calls
FailedCalls(cs) == { i \in 1..Len(cs) : cs[i].res # "ok" }

\* C13: a step in which a transport call of a handler (or of the startup
\* post) fails leaves main() where it was, receiving events: the failure
\* neither ends the process nor leaves the handler; and a join handled after
\* catch-up whose repost failed still gets its welcome DM attempted.
C13_NoFailureEscapes ==
    [][ FailedCalls(calls') # {} =>
          /\ pc' = pc \/ (pc = "init_sync" /\ pc' = "loop")
          /\ (/\ lastEvent'.kind = "member"
              /\ WELCOME_TEXT
              /\ lastEvent'.sender \notin welcomed_users) =>
                DmCallsFor(calls', "welcome", lastEvent'.sender) # {}
      ]_vars

\* C14: every step in which client.sync fails, the initial sync included,
\* takes main() to the backoff sleep, and the sleep only ends in the loop
\* calling client.sync again.
C14_PollFailureBacksOff ==
    [][ /\ (InitialSyncFail \/ SyncFail) => pc' = "sleeping"
        /\ pc = "sleeping" => pc' \in {"sleeping", "loop"}
      ]_vars

\* C15: a call of is_checkmark with the key of the call before and U+FE0E or
\* U+FE0F appended, or put in at any position, returns what the call before
\* returned.
C15_SelectorsIgnored ==
    [][ /\ verdict' = verdict
        /\ is_checkmark(key_in') = is_checkmark(key_in)
      ]_vars

\* C15 witness: a key longer than any initial one, so made by adding
\* selectors, with U+FE0E in front and U+FE0F behind a check mark, accepted
C15_Witness ==
    /\ Len(key_in) = MaxKeyLen + MaxSelectors
    /\ key_in[1] = VS15
    /\ key_in[Len(key_in)] = VS16
    /\ \E i \in 2..(Len(key_in) - 1) : key_in[i] = HEAVY_CHECK_MARK
    /\ verdict

\* C16, as stated: of two reactions of one user in one response only the
\* first leads to an invite call: over the handling of the response there is
\* at most one invite call and at most one tips DM for the user.
C16_OneInviteCallPerResponse ==
    \A u \in Users :
      /\ Cardinality(InviteCallsFor(calls, u)) <= 1
      /\ Cardinality(DmCallsFor(calls, "tips", u)) <= 1

\* C16, amended: the second reaction is handled after the handler of the
\* first has finished.  When the first invite call ended with the user marked
\* (it returned, or raised "already in the room") the second makes no call;
\* when it raised another exception the user is not marked and the second
\* makes its own invite call.  Each handler makes at most one invite call and
\* there is at most one tips DM for the user.
C16_SecondAfterFirst ==
    \A u \in Users :
      LET inv == InviteCallsFor(calls, u)
          marking == { i \in inv : calls[i].res # "raise_other" }
      IN  /\ Cardinality(DmCallsFor(calls, "tips", u)) <= 1
          /\ Cardinality(marking) <= 1
          /\ \A i \in marking : u \in invited_users /\ (\A j \in inv : j <= i)
          /\ \A i \in inv \ marking : u \in invited_users => (\E j \in marking : j > i)
          /\ lastEvent # NoEvent => Cardinality(inv) <= 2 - Len(batch)

\* C16 witness: both reactions of the response were acceptances on a tracked
\* message by one user; the first was answered with one successful invite
\* call and the tips DM, the second with nothing
C16_Witness ==
    /\ batch = << >>
    /\ AcceptanceOnTracked(lastEvent)
    /\ Len(calls) = 3
    /\ InviteCallsFor(calls, lastEvent.sender) = {1}
    /\ calls[1].res = "ok"
    /\ DmCallsFor(calls, "tips", lastEvent.sender) = {2}
    /\ lastEvent.sender \in invited_users

\* C17: the step of an event of another room than the gated one, membership
\* or reaction, in either form, changes nothing of invited_users,
\* welcomed_users, rules_event_ids and join_count, makes no call, creates no
\* room and leaves main() where it is.
C17_OtherRoomIgnored ==
    [][ (lastEvent' # NoEvent /\ lastEvent'.room # TARGET_ROOM_ID) =>
          /\ UNCHANGED engine
          /\ calls' = << >>
          /\ rooms' = rooms /\ nextEventId' = nextEventId
          /\ nReposts' = nReposts
          /\ pc' = pc
      ]_vars

\* C17 witness: after catch-up a check mark on a tracked identifier, in the
\* fallback form, from a user not yet invited, in another room: no call
C17_Witness ==
    /\ pc = "loop"
    /\ lastEvent.room = OtherRoomId
    /\ lastEvent.kind = "unknown" /\ lastEvent.type = "m.reaction"
    /\ lastEvent.reacts_to \in rules_event_ids
    /\ is_checkmark(KeyOrEmpty(lastEvent.key))
    /\ lastEvent.sender \notin invited_users \cup {BotId}
    /\ calls = << >>

\* C18: in every state between two events, for every sender, room, target
\* and key (absent ones included), on_reaction_event on the structured form
\* and on_unknown_event on the m.reaction fallback form have the same
\* possible results: the same invited_users and the same sequence of calls.
C18_FormsEquivalent ==
    Idle =>
      \A u \in Users, shape \in ReactionShapes :
        on_reaction_event(invited_users, rules_event_ids, rooms,
                          ReactionEv("reaction", u, "m.reaction", shape))
          = on_unknown_event(invited_users, rules_event_ids, rooms,
                             ReactionEv("unknown", u, "m.reaction", shape))

\* C18 witness: a check mark delivered in the fallback form was answered
\* with the invite call and the tips DM, and the user is marked
C18_Witness ==
    /\ lastEvent.kind = "unknown" /\ lastEvent.type = "m.reaction"
    /\ InviteCallsFor(calls, lastEvent.sender) = {1}
    /\ calls[1].res = "ok"
    /\ DmCallsFor(calls, "tips", lastEvent.sender) = {2}
    /\ lastEvent.sender \in invited_users

\* C19: with a threshold of zero or less the counter is 0 after every step,
\* and every qualifying join fires the repost: post_rules is called, with
\* rules content configured the rules are sent once, before anything else.
C19_NonPositiveThreshold ==
    [][ REPOST_EVERY_N_JOINS <= 0 =>
          /\ join_count' = 0
          /\ (pc = "loop" /\ GenuineJoin(lastEvent')) =>
               /\ nReposts' = nReposts + 1
               /\ RULES_TEXT => RulesCalls(calls') = {1}
      ]_vars

\* C19 witness: a negative threshold, two qualifying joins, two reposts, the
\* second just sent, the counter 0
C19_Witness ==
    /\ REPOST_EVERY_N_JOINS < 0
    /\ nJoins = 2 /\ nProfile = 0
    /\ nReposts = 2
    /\ GenuineJoin(lastEvent)
    /\ RulesCalls(calls) = {1}
    /\ join_count = 0

\* C20: during the initial sync an acceptance reaction on a tracked message,
\* in either form, from a user who is not the bot and not yet invited, makes
\* the invite call; unless that raises another exception than "already in
\* the room" the user is marked and, with tips configured, the tips DM
\* follows; the possible results are those of the same reaction after
\* catch-up.  A membership event of the same sync changes nothing and makes
\* no call.
C20_ReactionsNotGuarded ==
    [][ pc = "init_sync" =>
          /\ (lastEvent' # NoEvent /\ Actionable(lastEvent')) =>
               LET u == lastEvent'.sender
               IN  /\ ~initial_sync_done
                   /\ InviteCallsFor(calls', u) = {1}
                   /\ calls'[1].res # "raise_other" =>
                         /\ u \in invited_users'
                         /\ TIPS_TEXT => DmCallsFor(calls', "tips", u) = {2}
                   /\ [invited |-> invited_users', rooms |-> rooms', calls |-> calls']
                         \in handle_invite(invited_users, rooms, u)
          /\ lastEvent'.kind = "member" =>
               /\ UNCHANGED engine
               /\ calls' = << >>
      ]_vars

\* C20 witness: the initial sync is still running and a check mark on the
\* configured message led to a successful invite call and the tips DM
C20_Witness ==
    /\ pc = "init_sync" /\ ~initial_sync_done
    /\ AcceptanceOnTracked(lastEvent)
    /\ lastEvent.kind = "reaction"
    /\ InviteCallsFor(calls, lastEvent.sender) = {1}
    /\ calls[1].res = "ok"
    /\ DmCallsFor(calls, "tips", lastEvent.sender) = {2}
    /\ lastEvent.sender \in invited_users

====
